---- MODULE Spec2Model ----
(***************************************************************************)
(* Model of the raffle bot (src/bot.py): the in-memory cache (the module   *)
(* globals user_links, user_stats, raffles, already_picked, always_pick),  *)
(* the PostgreSQL store (the eight tables of db_init with their primary    *)
(* and foreign keys), the command handlers and the archive_watcher loop.   *)
(*                                                                         *)
(* Python dicts are functions whose DOMAIN is the key set; tables with a   *)
(* single key column are sets; a transaction that raises rolls back, so a  *)
(* db_* operator either yields the new store or the handler aborts at      *)
(* that statement with the cache writes made so far kept.                  *)
(***************************************************************************)
EXTENDS Integers, Sequences, FiniteSets, TLC

\* ------------------------------------------------------------------------
\* Bounds of the model and program constants
\* ------------------------------------------------------------------------
Users == {1, 2}
RaffleNames == {"A", "B"}
DrawRaffle == "A"

\* largest requested winner count offered to pick
MaxNumber == 2
\* caps on the stats counters (guards of register and pick)
MaxReg == 1
MaxWins == 2
\* how often the clock advances
MaxClockSteps == 1

\* timedelta(minutes=5) of schedule_archive_in_5
ArchiveDelayMinutes == 5

\* arguments offered to register: none, one the pattern rejects, one it accepts
NoArg == "None"
LinkInputs == {NoArg, "http://x.com/u", "https://x.com/u"}

\* re.match(pattern, link) of register, on the inputs above
MatchesPattern(link) == link \in {"https://x.com/u", "https://twitter.com/u"}

Numbers == 0..MaxNumber

\* ------------------------------------------------------------------------
\* State
\* ------------------------------------------------------------------------
VARIABLES
    user_links,      \* cache: uid -> link
    user_stats,      \* cache: uid -> [registrations, wins]
    raffles,         \* cache: raffle name -> list of uids
    already_picked,  \* cache: set of uids
    always_pick,     \* cache: set of uids
    db,              \* the store: one field per table
    now,             \* datetime.utcnow(), in minutes
    last,            \* the last handler that ran and what it answered
    picks,           \* the pick coroutines suspended at an await
    ready,           \* whether on_ready ran, and how it ended
    watcher          \* whether the archive_watcher loop is running

vars == <<user_links, user_stats, raffles, already_picked, always_pick, db, now, last,
          picks, ready, watcher>>
cache == <<user_links, user_stats, raffles, already_picked, always_pick>>
\* the state of the process around the handlers: a handler that runs from its
\* call to its return without a failure of the platform leaves it alone
proc == <<picks, ready, watcher>>

EmptyMap == [x \in {} |-> 0]

Put(f, k, v) == [x \in (DOMAIN f) \cup {k} |-> IF x = k THEN v ELSE f[x]]
Drop(f, S) == [x \in (DOMAIN f) \ S |-> f[x]]

Min(a, b) == IF a < b THEN a ELSE b
Max(a, b) == IF a > b THEN a ELSE b

NewStat == [registrations |-> 0, wins |-> 0]

\* `last` observes the handler that ran last: which one, how it ended and, for
\* a pick that selected winners, its inputs and its winner list. Only the handlers in Observed leave a
\* record; any other handler leaves Unobserved.
Observed == {"on_ready", "pick", "archive_watcher"}

Record(handler, result, raffle_name, number, members, online, winners) ==
    [handler |-> handler, result |-> result, raffle_name |-> raffle_name,
     number |-> number, members |-> members, online |-> online, winners |-> winners]

Unobserved == Record("-", "-", "", 0, {}, {}, <<>>)

Outcome(handler, result) ==
    IF handler \in Observed THEN Record(handler, result, "", 0, {}, {}, <<>>)
    ELSE Unobserved

PickOutcome(raffle_name, number, members, online, winners) ==
    Record("pick", "ok", raffle_name, number, members, online, winners)

\* pick answered that no user is eligible; of its inputs the guild is kept
NoWinnersOutcome(members) == Record("pick", "no_eligible", "", 0, members, {}, <<>>)

\* archive_watcher left its loop when db_archive_raffle(raffle_name) raised
WatcherError(raffle_name) ==
    Record("archive_watcher", "error", raffle_name, 0, {}, {}, <<>>)

\* ------------------------------------------------------------------------
\* The store (db_init) and the db_* helpers
\* ------------------------------------------------------------------------
EmptyDb ==
    [users |-> EmptyMap,            \* user_id -> x_link
     stats |-> EmptyMap,            \* user_id -> [registrations, wins], FK users
     always_pick |-> {},
     raffles |-> EmptyMap,          \* raffle_name -> archived
     raffle_winners |-> {},         \* <<raffle_name, user_id>>, FK raffles
     picks_state |-> {},
     archive_schedule |-> EmptyMap, \* raffle_name -> archive_at
     blacklist |-> {}]

db_upsert_user(d, user_id, link) ==
    LET d1 == [d EXCEPT !.users = Put(d.users, user_id, link)]
    IN  IF user_id \in DOMAIN d1.stats
        THEN d1
        ELSE [d1 EXCEPT !.stats = Put(d1.stats, user_id, NewStat)]

\* db_update_stat without its db_upsert_user(user_id) call
db_update_stat_skips_upsert(d, user_id, delta_reg, delta_wins) ==
    IF user_id \in DOMAIN d.stats
    THEN [d EXCEPT !.stats[user_id] =
             [registrations |-> @.registrations + delta_reg,
              wins |-> @.wins + delta_wins]]
    ELSE [d EXCEPT !.stats = Put(d.stats, user_id,
             [registrations |-> Max(delta_reg, 0), wins |-> Max(delta_wins, 0)])]

db_update_stat(d, user_id, delta_reg, delta_wins) ==
    LET d1 == db_upsert_user(d, user_id, "")
    IN  IF user_id \in DOMAIN d1.stats
        THEN [d1 EXCEPT !.stats[user_id] =
                 [registrations |-> @.registrations + delta_reg,
                  wins |-> @.wins + delta_wins]]
        ELSE [d1 EXCEPT !.stats = Put(d1.stats, user_id,
                 [registrations |-> Max(delta_reg, 0), wins |-> Max(delta_wins, 0)])]

db_set_always(d, user_id, add) ==
    IF add THEN [d EXCEPT !.always_pick = @ \cup {user_id}]
    ELSE [d EXCEPT !.always_pick = @ \ {user_id}]

db_set_picked(d, user_id) == [d EXCEPT !.picks_state = @ \cup {user_id}]

db_reset_picks(d) == [d EXCEPT !.picks_state = {}]

\* db_create_raffle written as an upsert: the conflict resets archived to 0
db_create_raffle_reopens(d, raffle_name) ==
    [d EXCEPT !.raffles = Put(d.raffles, raffle_name, 0)]

db_create_raffle(d, raffle_name) ==
    IF raffle_name \in DOMAIN d.raffles THEN d
    ELSE [d EXCEPT !.raffles = Put(d.raffles, raffle_name, 0)]

\* the insert needs its raffles row (FOREIGN KEY raffle_name)
db_add_winner_ok(d, raffle_name, user_id) ==
    <<raffle_name, user_id>> \in d.raffle_winners \/ raffle_name \in DOMAIN d.raffles

db_add_winner(d, raffle_name, user_id) ==
    [d EXCEPT !.raffle_winners = @ \cup {<<raffle_name, user_id>>}]

\* db_archive_raffle without its UPDATE: only the schedule entry goes
db_archive_raffle_drops_entry_only(d, raffle_name) ==
    [d EXCEPT !.archive_schedule = Drop(@, {raffle_name})]

db_archive_raffle(d, raffle_name) ==
    [d EXCEPT !.raffles = [n \in DOMAIN @ |-> IF n = raffle_name THEN 1 ELSE @[n]],
              !.archive_schedule = Drop(@, {raffle_name})]

\* db_schedule_archive with ON CONFLICT DO NOTHING: the first time stays
db_schedule_archive_keeps_first(d, raffle_name, when) ==
    IF raffle_name \in DOMAIN d.archive_schedule THEN d
    ELSE [d EXCEPT !.archive_schedule = Put(@, raffle_name, when)]

db_schedule_archive(d, raffle_name, when) ==
    [d EXCEPT !.archive_schedule = Put(@, raffle_name, when)]

\* db_get_due_archives without its WHERE archive_at <= :now
db_get_due_archives_any_time(d, t) == DOMAIN d.archive_schedule

db_get_due_archives(d, t) ==
    {n \in DOMAIN d.archive_schedule : d.archive_schedule[n] <= t}

is_blacklisted(d, user_id) == user_id \in d.blacklist

\* ------------------------------------------------------------------------
\* Initial state: a fresh store (db_init) loaded into the cache (on_ready)
\* ------------------------------------------------------------------------
\* the slots of the event loop for pick coroutines in flight
Tasks == {1, 2}

\* a slot with no coroutine in it
NoPick == [pc |-> "none", raffle_name |-> "", number |-> 0, members |-> {}, online |-> {},
           winners |-> <<>>, idx |-> 0]

Init ==
    /\ user_links = EmptyMap
    /\ user_stats = EmptyMap
    /\ raffles = EmptyMap
    /\ already_picked = {}
    /\ always_pick = {}
    /\ db = EmptyDb
    /\ now = 0
    /\ last = Outcome("on_ready", "ok")
    /\ picks = [t \in Tasks |-> NoPick]
    /\ ready = "ok"
    /\ watcher = "running"

\* ------------------------------------------------------------------------
\* register / unregister
\* ------------------------------------------------------------------------
Reject(handler, result) ==
    /\ last' = Outcome(handler, result)
    /\ UNCHANGED <<user_links, user_stats, raffles, already_picked, always_pick, db, now>>

register(author, link) ==
    IF link = NoArg THEN Reject("register", "usage")
    ELSE IF ~MatchesPattern(link) THEN Reject("register", "invalid_link")
    ELSE IF author \in DOMAIN user_links THEN Reject("register", "already_registered")
    ELSE IF is_blacklisted(db, author) THEN Reject("register", "blacklisted")
    ELSE
        /\ author \in DOMAIN db.stats => db.stats[author].registrations < MaxReg
        /\ user_links' = Put(user_links, author, link)
        /\ LET stat == IF author \in DOMAIN user_stats THEN user_stats[author] ELSE NewStat
           IN  user_stats' = Put(user_stats, author,
                                 [stat EXCEPT !.registrations = @ + 1])
        /\ db' = db_update_stat(db_upsert_user(db, author, link), author, 1, 0)
        /\ last' = Outcome("register", "ok")
        /\ UNCHANGED <<raffles, already_picked, always_pick, now>>

\* register when the k-th of its three store transactions raises (db_upsert_user;
\* inside db_update_stat: db_upsert_user, then the stats upsert): the
\* transactions before it are committed, and so are the cache writes before
\* the call that raises
register_store_error(author, link, k) ==
    /\ link # NoArg
    /\ MatchesPattern(link)
    /\ author \notin DOMAIN user_links
    /\ ~is_blacklisted(db, author)
    /\ user_links' = Put(user_links, author, link)
    /\ LET stat == IF author \in DOMAIN user_stats THEN user_stats[author] ELSE NewStat
       IN  user_stats' = IF k = 1 THEN user_stats
                         ELSE Put(user_stats, author, [stat EXCEPT !.registrations = @ + 1])
    /\ db' = IF k = 1 THEN db
             ELSE IF k = 2 THEN db_upsert_user(db, author, link)
             ELSE db_upsert_user(db_upsert_user(db, author, link), author, "")
    /\ last' = Outcome("register", "error")
    /\ UNCHANGED <<raffles, already_picked, always_pick, now>>

NoMember == 0

\* DELETE FROM users is refused while a stats row references the user
unregister_delete_ok(d, target) == target \notin DOMAIN d.stats

unregister_delete(d, target) ==
    [d EXCEPT !.users = Drop(@, {target}),
              !.stats = Drop(@, {target}),
              !.always_pick = @ \ {target},
              !.raffle_winners = {rw \in @ : rw[2] # target},
              !.picks_state = @ \ {target}]

\* the checks of unregister before it changes anything: the message it
\* rejects the request with, or "ok"
unregister_check(author, member, administrator) ==
    LET target == IF member # NoMember THEN member ELSE author
    IN  IF target \notin DOMAIN db.users THEN "not_registered"
        ELSE IF member # NoMember /\ ~administrator THEN "no_permission"
        ELSE "ok"

unregister(author, member, administrator) ==
    LET target == IF member # NoMember THEN member ELSE author
        check == unregister_check(author, member, administrator)
    IN  IF check # "ok" THEN Reject("unregister", check)
        ELSE
            /\ user_links' = Drop(user_links, {target})
            /\ already_picked' = already_picked \ {target}
            /\ always_pick' = always_pick \ {target}
            /\ user_stats' = Drop(user_stats, {target})
            /\ IF unregister_delete_ok(db, target)
               THEN db' = unregister_delete(db, target) /\ last' = Outcome("unregister", "ok")
               ELSE db' = db /\ last' = Outcome("unregister", "error")
            /\ UNCHANGED <<raffles, now>>

\* ------------------------------------------------------------------------
\* blacklist, always-pick, profile
\* ------------------------------------------------------------------------
blacklist(member) ==
    /\ db' = [db EXCEPT !.blacklist = @ \cup {member}]
    /\ last' = Outcome("blacklist", "ok")
    /\ UNCHANGED <<user_links, user_stats, raffles, already_picked, always_pick, now>>

unblacklist(member) ==
    /\ db' = [db EXCEPT !.blacklist = @ \ {member}]
    /\ last' = Outcome("unblacklist", "ok")
    /\ UNCHANGED <<user_links, user_stats, raffles, already_picked, always_pick, now>>

always_add(member) ==
    /\ always_pick' = always_pick \cup {member}
    /\ db' = db_set_always(db, member, TRUE)
    /\ last' = Outcome("always_add", "ok")
    /\ UNCHANGED <<user_links, user_stats, raffles, already_picked, now>>

always_remove(member) ==
    /\ always_pick' = always_pick \ {member}
    /\ db' = db_set_always(db, member, FALSE)
    /\ last' = Outcome("always_remove", "ok")
    /\ UNCHANGED <<user_links, user_stats, raffles, already_picked, now>>

profile(user) ==
    /\ user_stats' = IF user \in DOMAIN user_stats THEN user_stats
                     ELSE Put(user_stats, user, NewStat)
    /\ last' = Outcome("profile", "ok")
    /\ UNCHANGED <<user_links, raffles, already_picked, always_pick, db, now>>

\* ------------------------------------------------------------------------
\* pick
\* ------------------------------------------------------------------------
\* members: the users ctx.guild.get_member finds; online: those whose status
\* is discord.Status.online
\* priority_winners that forgets `not is_blacklisted(uid)`
priority_winners_ignores_blacklist(members) ==
    {uid \in always_pick : uid \in members /\ uid \notin already_picked}

\* priority_winners that also asks for `uid in user_links`
priority_winners_registered_only(members) ==
    {uid \in always_pick :
        /\ uid \in DOMAIN user_links
        /\ uid \in members
        /\ uid \notin already_picked
        /\ ~is_blacklisted(db, uid)}

priority_winners(members) ==
    {uid \in always_pick :
        uid \in members /\ uid \notin already_picked /\ ~is_blacklisted(db, uid)}

\* eligible that forgets `uid not in already_picked`
eligible_ignores_picked(members, online) ==
    {uid \in DOMAIN user_links :
        /\ uid \in members
        /\ uid \in online
        /\ uid \notin always_pick
        /\ ~is_blacklisted(db, uid)}

\* eligible that forgets `m.status == discord.Status.online`
eligible_ignores_presence(members, online) ==
    {uid \in DOMAIN user_links :
        /\ uid \in members
        /\ uid \notin already_picked
        /\ uid \notin always_pick
        /\ ~is_blacklisted(db, uid)}

eligible(members, online) ==
    {uid \in DOMAIN user_links :
        /\ uid \in members
        /\ uid \notin already_picked
        /\ uid \in online
        /\ uid \notin always_pick
        /\ ~is_blacklisted(db, uid)}

\* pick without `number -= len(priority_winners)`
remaining_ignores_priority(number, priority) == number

\* number after `number -= len(priority_winners)`
remaining(number, priority) ==
    IF priority # {} THEN number - Cardinality(priority) ELSE number

\* the sets random.sample(eligible, min(number, len(eligible))) can return
samples(pool, number) ==
    IF number > 0 /\ pool # {}
    THEN {s \in SUBSET pool : Cardinality(s) = Min(number, Cardinality(pool))}
    ELSE {{}}

\* the orders random.shuffle can leave a list of the users in S in
shuffles(S) ==
    {w \in [1..Cardinality(S) -> S] : \A i, j \in 1..Cardinality(S) : w[i] = w[j] => i = j}

\* the loop body with user_stats.setdefault and no `user_stats[w.id]["wins"] += 1`
record_winner_no_cache_win(st, raffle_name, w) ==
    LET d1 == db_add_winner(st.db, raffle_name, w)
        d2 == db_set_picked(d1, w)
        d3 == db_update_stat(d2, w, 0, 1)
        stat == IF w \in DOMAIN st.user_stats THEN st.user_stats[w] ELSE NewStat
    IN  [already_picked |-> st.already_picked \cup {w},
         raffles |-> [st.raffles EXCEPT ![raffle_name] = Append(@, w)],
         user_stats |-> Put(st.user_stats, w, stat),
         db |-> d3]

\* one iteration of `for idx, w in enumerate(winners)` on
\* st = [already_picked, raffles, user_stats, db]
record_winner(st, raffle_name, w) ==
    LET d1 == db_add_winner(st.db, raffle_name, w)
        d2 == db_set_picked(d1, w)
        d3 == db_update_stat(d2, w, 0, 1)
        stat == IF w \in DOMAIN st.user_stats THEN st.user_stats[w] ELSE NewStat
    IN  [already_picked |-> st.already_picked \cup {w},
         raffles |-> [st.raffles EXCEPT ![raffle_name] = Append(@, w)],
         user_stats |-> Put(st.user_stats, w, [stat EXCEPT !.wins = @ + 1]),
         db |-> d3]

RECURSIVE record_winners(_, _, _)
record_winners(st, raffle_name, winners) ==
    IF winners = <<>> THEN st
    ELSE record_winners(record_winner(st, raffle_name, Head(winners)), raffle_name,
                        Tail(winners))

\* raffles.setdefault(raffle_name, []) and db_create_raffle(raffle_name)
pick_open_raffle(st, raffle_name) ==
    [st EXCEPT !.raffles = IF raffle_name \in DOMAIN @ THEN @ ELSE Put(@, raffle_name, <<>>),
               !.db = db_create_raffle(@, raffle_name)]

\* pick that opens the raffle before it looks at `winners`
pick_no_winners_opens_raffle(raffle_name, number, members, online) ==
    LET st == pick_open_raffle([raffles |-> raffles, db |-> db], raffle_name)
    IN  /\ raffles' = st.raffles
        /\ db' = st.db
        /\ last' = NoWinnersOutcome(members)
        /\ UNCHANGED <<user_links, user_stats, already_picked, always_pick, now>>

\* `if not winners: ... return`
pick_no_winners(raffle_name, number, members, online) ==
    /\ last' = NoWinnersOutcome(members)
    /\ UNCHANGED <<user_links, user_stats, raffles, already_picked, always_pick, db, now>>

pick(raffle_name, number, members, online) ==
    LET priority == priority_winners(members)
        pool == eligible(members, online)
    IN  \E sample \in samples(pool, remaining(number, priority)) :
            LET chosen == priority \cup sample
            IN  IF chosen = {} THEN pick_no_winners(raffle_name, number, members, online)
                ELSE \E winners \in shuffles(chosen) :
                    LET st0 == [already_picked |-> already_picked, raffles |-> raffles,
                                user_stats |-> user_stats, db |-> db]
                        st == record_winners(pick_open_raffle(st0, raffle_name),
                                             raffle_name, winners)
                    IN  /\ \A w \in chosen :
                              /\ w \in DOMAIN db.stats => db.stats[w].wins < MaxWins
                              /\ w \in DOMAIN user_stats => user_stats[w].wins < MaxWins
                        /\ already_picked' = st.already_picked
                        /\ raffles' = st.raffles
                        /\ user_stats' = st.user_stats
                        /\ db' = st.db
                        /\ last' = PickOutcome(raffle_name, number, members,
                                               online, winners)
                        /\ UNCHANGED <<user_links, always_pick, now>>

\* ------------------------------------------------------------------------
\* pick as a coroutine: it gives up the event loop at `await
\* ctx.guild.create_role(...)` and at each `await w.add_roles(winner_role)`
\* ------------------------------------------------------------------------
\* pick was left by an exception of create_role or add_roles
PickRoleError(p) ==
    Record("pick", "role_error", p.raffle_name, p.number, p.members, p.online, p.winners)

\* raffles[raffle_name] raised KeyError in the loop: the key that setdefault
\* made is gone
PickKeyError(p) ==
    Record("pick", "key_error", p.raffle_name, p.number, p.members, p.online, p.winners)

\* the statements of the loop body before `await w.add_roles(winner_role)`, for
\* the winner after position p.idx
pick_record_next(p) ==
    LET st0 == [already_picked |-> already_picked, raffles |-> raffles,
                user_stats |-> user_stats, db |-> db]
        st == record_winner(st0, p.raffle_name, p.winners[p.idx + 1])
    IN  /\ already_picked' = st.already_picked
        /\ raffles' = st.raffles
        /\ user_stats' = st.user_stats
        /\ db' = st.db

\* from the call to the first await; role_exists: discord.utils.get finds the
\* winner role among ctx.guild.roles
pick_begin(t, raffle_name, number, members, online, role_exists) ==
    /\ picks[t].pc = "none"
    /\ LET priority == priority_winners(members)
           pool == eligible(members, online)
       IN  \E sample \in samples(pool, remaining(number, priority)) :
               LET chosen == priority \cup sample
               IN  IF chosen = {}
                   THEN pick_no_winners(raffle_name, number, members, online)
                        /\ UNCHANGED proc
                   ELSE \E winners \in shuffles(chosen) :
                       LET st0 == [already_picked |-> already_picked, raffles |-> raffles,
                                   user_stats |-> user_stats, db |-> db]
                           st1 == pick_open_raffle(st0, raffle_name)
                           st == IF role_exists
                                 THEN record_winner(st1, raffle_name, winners[1])
                                 ELSE st1
                       IN  /\ \A w \in chosen :
                                 /\ w \in DOMAIN db.stats => db.stats[w].wins < MaxWins
                                 /\ w \in DOMAIN user_stats => user_stats[w].wins < MaxWins
                           /\ already_picked' = st.already_picked
                           /\ raffles' = st.raffles
                           /\ user_stats' = st.user_stats
                           /\ db' = st.db
                           /\ picks' = [picks EXCEPT ![t] =
                                  [pc |-> IF role_exists THEN "add_roles" ELSE "create_role",
                                   raffle_name |-> raffle_name, number |-> number,
                                   members |-> members, online |-> online,
                                   winners |-> winners,
                                   idx |-> IF role_exists THEN 1 ELSE 0]]
                           /\ last' = Unobserved
                           /\ UNCHANGED <<user_links, always_pick, now, ready, watcher>>

\* the await returns: the loop goes on to the next winner, or the loop is over
\* and pick sends the table
pick_resume(t) ==
    LET p == picks[t]
    IN  /\ p.pc \in {"create_role", "add_roles"}
        /\ IF p.idx < Len(p.winners) /\ p.raffle_name \in DOMAIN raffles
           THEN /\ pick_record_next(p)
                /\ picks' = [picks EXCEPT ![t] = [p EXCEPT !.pc = "add_roles", !.idx = p.idx + 1]]
                /\ last' = Unobserved
                /\ UNCHANGED <<user_links, always_pick, now, ready, watcher>>
           ELSE IF p.idx < Len(p.winners)
           THEN \* already_picked.add(w.id), then raffles[raffle_name] raises
                /\ already_picked' = already_picked \cup {p.winners[p.idx + 1]}
                /\ picks' = [picks EXCEPT ![t] = NoPick]
                /\ last' = PickKeyError(p)
                /\ UNCHANGED <<user_links, user_stats, raffles, always_pick, db, now,
                               ready, watcher>>
           ELSE /\ picks' = [picks EXCEPT ![t] = NoPick]
                /\ last' = PickOutcome(p.raffle_name, p.number, p.members, p.online, p.winners)
                /\ UNCHANGED <<user_links, user_stats, raffles, already_picked, always_pick,
                               db, now, ready, watcher>>

\* the await raises (discord.Forbidden, discord.HTTPException): nothing in
\* pick catches it, the coroutine ends there
pick_role_error(t) ==
    LET p == picks[t]
    IN  /\ p.pc \in {"create_role", "add_roles"}
        /\ picks' = [picks EXCEPT ![t] = NoPick]
        /\ last' = PickRoleError(p)
        /\ UNCHANGED <<user_links, user_stats, raffles, already_picked, always_pick,
                       db, now, ready, watcher>>

\* reset_picks that clears the picks_state table and leaves already_picked
reset_picks_store_only ==
    /\ db' = db_reset_picks(db)
    /\ last' = Outcome("reset_picks", "ok")
    /\ UNCHANGED <<user_links, user_stats, raffles, already_picked, always_pick, now>>

reset_picks ==
    /\ already_picked' = {}
    /\ db' = db_reset_picks(db)
    /\ last' = Outcome("reset_picks", "ok")
    /\ UNCHANGED <<user_links, user_stats, raffles, always_pick, now>>

\* ------------------------------------------------------------------------
\* export (ExportButtons._handle_export) and the archive schedule
\* ------------------------------------------------------------------------
has_winners(raffle_name) ==
    IF raffle_name \in DOMAIN raffles THEN Len(raffles[raffle_name]) > 0
    ELSE \E rw \in db.raffle_winners : rw[1] = raffle_name

schedule_archive_in_5(d, raffle_name) ==
    db_schedule_archive(d, raffle_name, now + ArchiveDelayMinutes)

handle_export(raffle_name) ==
    IF ~has_winners(raffle_name) THEN Reject("export", "no_winners")
    ELSE
        /\ db' = schedule_archive_in_5(db, raffle_name)
        /\ last' = Outcome("export", "ok")
        /\ UNCHANGED <<user_links, user_stats, raffles, already_picked, always_pick, now>>

\* ------------------------------------------------------------------------
\* archive_watcher
\* ------------------------------------------------------------------------
orders(S) ==
    {q \in [1..Cardinality(S) -> S] : \A i, j \in 1..Cardinality(S) : q[i] = q[j] => i = j}

\* one iteration of `for name in due` on st = [raffles, db]
archive_one(st, name) ==
    [raffles |-> Drop(st.raffles, {name}), db |-> db_archive_raffle(st.db, name)]

RECURSIVE archive_all(_, _)
archive_all(st, due) ==
    IF due = <<>> THEN st ELSE archive_all(archive_one(st, Head(due)), Tail(due))

\* a tick in which every db_archive_raffle commits
archive_watcher ==
    LET due == db_get_due_archives(db, now)
    IN  IF due = {} THEN Reject("archive_watcher", "idle")
        ELSE \E q \in orders(due) :
            LET st == archive_all([raffles |-> raffles, db |-> db], q)
            IN  /\ raffles' = st.raffles
                /\ db' = st.db
                /\ last' = Outcome("archive_watcher", "ok")
                /\ UNCHANGED <<user_links, user_stats, already_picked, always_pick, now>>

\* a tick in which db_archive_raffle raises on the k-th due entry: its
\* transaction rolls back and the exception leaves the for loop
archive_watcher_error ==
    LET due == db_get_due_archives(db, now)
    IN  /\ due # {}
        /\ \E q \in orders(due) : \E k \in 1..Len(q) :
            LET st == archive_all([raffles |-> raffles, db |-> db], SubSeq(q, 1, k - 1))
            IN  /\ raffles' = st.raffles
                /\ db' = st.db
                /\ last' = WatcherError(q[k])
                /\ UNCHANGED <<user_links, user_stats, already_picked, always_pick, now>>

\* ------------------------------------------------------------------------
\* reset_db / reset_raffles
\* ------------------------------------------------------------------------
\* DELETE FROM users is refused while stats rows reference users, DELETE FROM
\* raffles while raffle_winners rows reference raffles
reset_db_ok(d) == DOMAIN d.stats = {} /\ d.raffle_winners = {}

reset_db ==
    IF ~reset_db_ok(db) THEN Reject("reset_db", "error")
    ELSE
        /\ db' = EmptyDb
        /\ user_links' = EmptyMap
        /\ raffles' = EmptyMap
        /\ user_stats' = EmptyMap
        /\ already_picked' = {}
        /\ always_pick' = {}
        /\ last' = Outcome("reset_db", "ok")
        /\ UNCHANGED now

reset_raffles_ok(d) == d.raffle_winners = {}

\* reset_raffles with the DELETE FROM users of reset_db among its statements
reset_raffles_delete_with_users(d) ==
    [d EXCEPT !.users = EmptyMap, !.raffles = EmptyMap, !.stats = EmptyMap,
              !.raffle_winners = {}, !.picks_state = {}, !.archive_schedule = EmptyMap]

reset_raffles_delete(d) ==
    [d EXCEPT !.raffles = EmptyMap, !.stats = EmptyMap, !.raffle_winners = {},
              !.picks_state = {}, !.archive_schedule = EmptyMap]

reset_raffles ==
    IF ~reset_raffles_ok(db) THEN Reject("reset_raffles", "error")
    ELSE
        /\ db' = reset_raffles_delete(db)
        /\ raffles' = EmptyMap
        /\ user_stats' = EmptyMap
        /\ already_picked' = {}
        /\ last' = Outcome("reset_raffles", "ok")
        /\ UNCHANGED <<user_links, always_pick, now>>

\* ------------------------------------------------------------------------
\* process start and on_ready
\* ------------------------------------------------------------------------
\* the module is imported: the globals are empty, the store is what it was
process_start ==
    /\ user_links' = EmptyMap
    /\ user_stats' = EmptyMap
    /\ raffles' = EmptyMap
    /\ already_picked' = {}
    /\ always_pick' = {}
    /\ picks' = [t \in Tasks |-> NoPick]
    /\ ready' = "no"
    /\ watcher' = "stopped"
    /\ last' = Unobserved
    /\ UNCHANGED <<db, now>>

\* the winner lists load_state_from_db can build: the rows of the join come in
\* no stated order
loaded_raffles(d) ==
    LET active == {n \in DOMAIN d.raffles : d.raffles[n] = 0}
        won(n) == {rw[2] : rw \in {x \in d.raffle_winners : x[1] = n}}
    IN  {f \in [active -> UNION {orders(won(n)) : n \in active}] :
            \A n \in active : f[n] \in orders(won(n))}

LoadSteps == 5

\* the cache c after the first k steps of load_state_from_db, lists being the
\* winner lists it builds: users, stats, always_pick, raffles, picks_state
load_state_from_db(c, d, k, lists) ==
    [user_links |-> IF k < 1 THEN c.user_links
                    ELSE [u \in (DOMAIN c.user_links) \cup (DOMAIN d.users) |->
                             IF u \in DOMAIN d.users THEN d.users[u] ELSE c.user_links[u]],
     user_stats |-> IF k < 2 THEN c.user_stats
                    ELSE [u \in (DOMAIN c.user_stats) \cup (DOMAIN d.stats) |->
                             IF u \in DOMAIN d.stats THEN d.stats[u] ELSE c.user_stats[u]],
     always_pick |-> IF k < 3 THEN c.always_pick ELSE d.always_pick,
     raffles |-> IF k < 4 THEN c.raffles ELSE lists,
     already_picked |-> IF k < 5 THEN c.already_picked ELSE d.picks_state]

Cache ==
    [user_links |-> user_links, user_stats |-> user_stats, always_pick |-> always_pick,
     raffles |-> raffles, already_picked |-> already_picked]

\* on_ready with k steps of the load done: all of them, or the store raised
\* (in db_init for k = 0) and the event handler ended there
on_ready_loaded(k, result) ==
    \E lists \in loaded_raffles(db) :
        LET c == load_state_from_db(Cache, db, k, lists)
        IN  /\ user_links' = c.user_links
            /\ user_stats' = c.user_stats
            /\ always_pick' = c.always_pick
            /\ raffles' = c.raffles
            /\ already_picked' = c.already_picked
            /\ ready' = result
            /\ watcher' = IF result = "ok" THEN "running" ELSE watcher
            /\ last' = Outcome("on_ready", result)
            /\ UNCHANGED <<db, now, picks>>

on_ready == on_ready_loaded(LoadSteps, "ok")

on_ready_error == \E k \in 0..(LoadSteps - 1) : on_ready_loaded(k, "failed")

\* ------------------------------------------------------------------------
\* time passes
\* ------------------------------------------------------------------------
advance_clock ==
    /\ now < MaxClockSteps * ArchiveDelayMinutes
    /\ now' = now + ArchiveDelayMinutes
    /\ last' = Outcome("clock", "ok")
    /\ UNCHANGED <<user_links, user_stats, raffles, already_picked, always_pick, db>>

\* ------------------------------------------------------------------------
\* Specifications
\* ------------------------------------------------------------------------
\* The handlers, each over every input of the model.
Register == (\E author \in Users, link \in LinkInputs : register(author, link)) /\ UNCHANGED proc
Unregister ==
    /\ \E author \in Users, member \in Users \cup {NoMember}, administrator \in BOOLEAN :
           unregister(author, member, administrator)
    /\ UNCHANGED proc
Blacklist == (\E member \in Users : blacklist(member)) /\ UNCHANGED proc
Unblacklist == (\E member \in Users : unblacklist(member)) /\ UNCHANGED proc
AlwaysAdd == (\E member \in Users : always_add(member)) /\ UNCHANGED proc
AlwaysRemove == (\E member \in Users : always_remove(member)) /\ UNCHANGED proc
Profile == (\E user \in Users : profile(user)) /\ UNCHANGED proc
Pick ==
    /\ \E raffle_name \in RaffleNames, number \in Numbers, members \in SUBSET Users :
           \E online \in SUBSET members : pick(raffle_name, number, members, online)
    /\ UNCHANGED proc
ResetPicks == reset_picks /\ UNCHANGED proc
HandleExport == (\E raffle_name \in RaffleNames : handle_export(raffle_name)) /\ UNCHANGED proc
\* tasks.loop calls archive_watcher every 30 seconds while the loop runs; an
\* exception that leaves archive_watcher ends the loop
ArchiveWatcher == watcher = "running" /\ archive_watcher /\ UNCHANGED proc
ArchiveWatcherError ==
    /\ watcher = "running"
    /\ archive_watcher_error
    /\ watcher' = "stopped"
    /\ UNCHANGED <<picks, ready>>
ResetDb == reset_db /\ UNCHANGED proc
ResetRaffles == reset_raffles /\ UNCHANGED proc
AdvanceClock == advance_clock /\ UNCHANGED proc

\* pick for one raffle name, with every user a member and online
PickOneRaffleAllOnline ==
    (\E number \in 1..MaxNumber : pick(DrawRaffle, number, Users, Users)) /\ UNCHANGED proc

ProcessStart == process_start
\* on_ready is the first handler of a process
OnReady == ready = "no" /\ on_ready
OnReadyError == ready = "no" /\ on_ready_error
\* a command reaches its handler once on_ready has run
Started(command) == ready # "no" /\ command

RegisterStoreError ==
    /\ \E author \in Users, link \in LinkInputs, k \in 1..3 :
           register_store_error(author, link, k)
    /\ UNCHANGED proc

\* pick for one raffle name, over every guild and presence
PickOneRaffle ==
    /\ \E number \in Numbers, members \in SUBSET Users :
           \E online \in SUBSET members : pick(DrawRaffle, number, members, online)
    /\ UNCHANGED proc

\* pick for every raffle name, with every user a member and online
PickAllOnline ==
    /\ \E raffle_name \in RaffleNames, number \in 1..MaxNumber :
           pick(raffle_name, number, Users, Users)
    /\ UNCHANGED proc

\* pick coroutines, with every user a member and online
PickBegin ==
    \E t \in Tasks, raffle_name \in RaffleNames, number \in 1..MaxNumber,
       role_exists \in BOOLEAN :
        pick_begin(t, raffle_name, number, Users, Users, role_exists)
PickResume == \E t \in Tasks : pick_resume(t)
PickRoleFails == \E t \in Tasks : pick_role_error(t)

\* The whole bot.
Next ==
    \/ Register
    \/ Unregister
    \/ Blacklist
    \/ Unblacklist
    \/ AlwaysAdd
    \/ AlwaysRemove
    \/ Profile
    \/ Pick
    \/ ResetPicks
    \/ HandleExport
    \/ ArchiveWatcher
    \/ ArchiveWatcherError
    \/ ResetDb
    \/ ResetRaffles
    \/ AdvanceClock
    \/ PickBegin
    \/ PickResume
    \/ PickRoleFails
    \/ RegisterStoreError
    \/ ProcessStart
    \/ OnReady
    \/ OnReadyError

Spec == Init /\ [][Next]_vars

\* Registration and selection: the handlers that write what pick reads
\* (user_links, always_pick, already_picked and the blacklist table), and the
\* draws of one raffle.
NextDraw ==
    \/ Register
    \/ Blacklist
    \/ Unblacklist
    \/ AlwaysAdd
    \/ AlwaysRemove
    \/ PickOneRaffle
    \/ ResetPicks

SpecDraw == Init /\ [][NextDraw]_vars

\* The raffle lifecycle: draws of always-pick members into every raffle,
\* export, the archive schedule, the watcher, and every handler that deletes
\* raffle or winner rows (unregister and the resets).
NextArchive ==
    \/ AlwaysAdd
    \/ Unregister
    \/ PickAllOnline
    \/ HandleExport
    \/ ArchiveWatcher
    \/ ResetDb
    \/ ResetRaffles
    \/ AdvanceClock

SpecArchive == Init /\ [][NextArchive]_vars

\* The archive schedule: the handlers that write, read and delete
\* archive_schedule rows, and the draws that give raffles their winners.
NextSchedule ==
    \/ AlwaysAdd
    \/ PickAllOnline
    \/ ResetPicks
    \/ HandleExport
    \/ ArchiveWatcher
    \/ ArchiveWatcherError
    \/ ResetRaffles
    \/ ResetDb
    \/ AdvanceClock

SpecSchedule == Init /\ [][NextSchedule]_vars

\* The archive_watcher loop under its schedule: while the loop runs, a tick
\* comes every 30 seconds and time passes. Weak fairness of the committing tick
\* says that the store does not fail for ever.
NextWatcher ==
    \/ AlwaysAdd
    \/ PickAllOnline
    \/ HandleExport
    \/ ArchiveWatcher
    \/ ArchiveWatcherError
    \/ AdvanceClock

SpecWatcher ==
    Init /\ [][NextWatcher]_vars /\ WF_vars(ArchiveWatcher) /\ WF_vars(AdvanceClock)

\* The users: registration, unregistration, the blacklist, and the handlers
\* that write or delete users and stats rows (pick, reset_raffles, reset_db).
NextUsers ==
    \/ Register
    \/ Unregister
    \/ Blacklist
    \/ Unblacklist
    \/ AlwaysAdd
    \/ PickOneRaffleAllOnline
    \/ ResetRaffles
    \/ ResetDb

SpecUsers == Init /\ [][NextUsers]_vars

\* Registration and unregistration with store writes that fail.
NextStoreErrors ==
    \/ Register
    \/ RegisterStoreError
    \/ Unregister
    \/ AlwaysAdd
    \/ PickOneRaffleAllOnline
    \/ ResetRaffles

SpecStoreErrors == Init /\ [][NextStoreErrors]_vars

\* Process starts: the cache is rebuilt from the store, or the rebuild fails,
\* and commands follow.
NextStartup ==
    \/ ProcessStart
    \/ OnReady
    \/ OnReadyError
    \/ Started(Register)
    \/ Started(AlwaysAdd)
    \/ Started(PickOneRaffleAllOnline)
    \/ Started(ResetPicks)

SpecStartup == Init /\ [][NextStartup]_vars

\* A draw as a coroutine and the archive_watcher loop: ticks that run while a
\* pick is suspended at an await.
NextPickArchive ==
    \/ AlwaysAdd
    \/ PickBegin
    \/ PickResume
    \/ HandleExport
    \/ ArchiveWatcher
    \/ AdvanceClock

SpecPickArchive == Init /\ [][NextPickArchive]_vars

\* Draws as coroutines: pick requests that overlap at their awaits, and role
\* calls that fail.
NextPicks ==
    \/ Register
    \/ AlwaysAdd
    \/ PickBegin
    \/ PickResume
    \/ PickRoleFails

SpecPicks == Init /\ [][NextPicks]_vars

\* ------------------------------------------------------------------------
\* Properties
\* ------------------------------------------------------------------------
Range(q) == {q[i] : i \in 1..Len(q)}

\* the handler that ran last was a pick that selected winners
PickedOk == last.handler = "pick" /\ last.result = "ok"

\* the always-pick members that are in the guild, not picked and not blacklisted
EligibleAlways(members) ==
    {u \in always_pick : u \in members /\ u \notin already_picked /\ u \notin db.blacklist}

\* the registered users outside always-pick that are in the guild, online, not
\* picked and not blacklisted
EligiblePool(members, online) ==
    {u \in (DOMAIN user_links) \ always_pick :
        u \in members /\ u \in online /\ u \notin already_picked /\ u \notin db.blacklist}

\* C1: a pick that finds no winner leaves the cache and every table of the
\* store as they were; no raffle is created in either.
C1_EmptyPickChangesNothing ==
    [][(last'.handler = "pick" /\ last'.result = "no_eligible")
          => (cache' = cache /\ db' = db)]_vars

\* a pick found no winner although users are registered and some are picked
C1_Witness ==
    /\ last.handler = "pick"
    /\ last.result = "no_eligible"
    /\ DOMAIN user_links # {}
    /\ already_picked # {}

\* C2 as claimed: a successful pick for N winners returns min(N, |priority| +
\* |pool|) winners.
C2_CountIsMinOfRequestAndEligible ==
    [][PickedOk' =>
          Len(last'.winners) =
              Min(last'.number,
                  Cardinality(EligibleAlways(last'.members))
                      + Cardinality(EligiblePool(last'.members, last'.online)))]_vars

\* C2 amended: a successful pick for N winners returns every priority member
\* and min(max(0, N - |priority|), |pool|) pool members, which is min(N,
\* |priority| + |pool|) whenever N >= |priority|; a request for at least as
\* many winners as are eligible returns all of them.
C2_CountIsPriorityPlusSample ==
    [][PickedOk' =>
          LET p == EligibleAlways(last'.members)
              q == EligiblePool(last'.members, last'.online)
              n == last'.number
          IN  /\ Len(last'.winners) =
                     Cardinality(p) + Min(Max(0, n - Cardinality(p)), Cardinality(q))
              /\ n >= Cardinality(p) =>
                     Len(last'.winners) = Min(n, Cardinality(p) + Cardinality(q))
              /\ n >= Cardinality(p) + Cardinality(q) => Range(last'.winners) = p \cup q]_vars

\* a pick asked for more winners than it found eligible and returned fewer
C2_Witness == PickedOk /\ last.number > Len(last.winners)

\* C3: every always-pick member who is in the guild, not picked and not
\* blacklisted when a pick runs is among its winners, whatever N is.
C3_PriorityAlwaysWins ==
    [][last'.handler = "pick" =>
          EligibleAlways(last'.members) \subseteq Range(last'.winners)]_vars

\* a pick returned more always-pick members than the count it was asked for
C3_Witness ==
    PickedOk /\ Cardinality(Range(last.winners) \cap always_pick) > last.number

\* C4: no user who is blacklisted when a pick runs is among its winners.
C4_BlacklistedNeverWins == PickedOk => Range(last.winners) \cap db.blacklist = {}

\* a pick selected winners while an always-pick member in the guild, not picked,
\* was blacklisted
C4_Witness ==
    /\ PickedOk
    /\ \E u \in db.blacklist \cap always_pick :
           u \in last.members /\ u \notin already_picked

NoRepeatedWinner ==
    \A n \in DOMAIN raffles :
        \A i, j \in 1..Len(raffles[n]) : raffles[n][i] = raffles[n][j] => i = j

\* no listed winner has left PickedState: it was not reset since they won
ListedStillPicked == \A n \in DOMAIN raffles : Range(raffles[n]) \subseteq already_picked

\* C5: a pick selects no user who is in PickedState, so while the listed
\* winners are still in PickedState no pick puts a user twice in a raffle's list.
C5_PickedNotPickedAgain ==
    [][PickedOk' =>
          /\ Range(last'.winners) \cap already_picked = {}
          /\ (NoRepeatedWinner /\ ListedStillPicked) => NoRepeatedWinner']_vars

\* a second pick added a winner to a raffle that already listed one
C5_Witness ==
    /\ PickedOk
    /\ Len(last.winners) = 1
    /\ Len(raffles[last.raffle_name]) = 2
    /\ NoRepeatedWinner

StoreWins(u) == IF u \in DOMAIN db.stats THEN db.stats[u].wins ELSE 0
WinnerRecords(u) == {rw \in db.raffle_winners : rw[2] = u}

\* C6: for every user the wins counter of the stats table equals the number of
\* the user's raffle_winners rows.
C6_WinsEqualWinnerRecords ==
    \A u \in Users : StoreWins(u) = Cardinality(WinnerRecords(u))

\* C7: a raffle name is a key of the cache's raffles map exactly if the store
\* has a raffles row of that name with archived = 0.
C7_CacheHoldsExactlyActive ==
    DOMAIN raffles = {n \in DOMAIN db.raffles : db.raffles[n] = 0}

Archived(d, n) == n \in DOMAIN d.raffles /\ d.raffles[n] = 1
Active(d, n) == n \in DOMAIN d.raffles /\ d.raffles[n] = 0

Due == {n \in DOMAIN db.archive_schedule : db.archive_schedule[n] <= now}

WatcherRan == last.handler = "archive_watcher" /\ last.result \in {"ok", "error"}

\* C9: after a tick every entry that was due at its start is either processed
\* (raffle archived, entry removed) or still in the schedule as it was.
C9_DueEntryArchivedOrRetained ==
    [][WatcherRan' =>
          \A n \in Due :
              \/ Archived(db', n) /\ n \notin DOMAIN db'.archive_schedule
              \/ /\ n \in DOMAIN db'.archive_schedule
                 /\ db'.archive_schedule[n] = db.archive_schedule[n]]_vars

\* a tick archived one raffle and left the entry of another, whose archiving
\* raised, in the schedule
C9_Witness ==
    /\ last.handler = "archive_watcher"
    /\ last.result = "error"
    /\ last.raffle_name \in DOMAIN db.archive_schedule
    /\ \E n \in RaffleNames : Archived(db, n)

\* C10: when db_archive_raffle raises on one due entry, the tick still
\* archives every other due entry.
C10_FailureDoesNotBlockOthers ==
    [][(last'.handler = "archive_watcher" /\ last'.result = "error") =>
          \A n \in Due \ {last'.raffle_name} :
              Archived(db', n) /\ n \notin DOMAIN raffles']_vars

InFlight(t) == picks[t].pc # "none"

\* C11: two pick requests that overlap at their awaits select no user in common:
\* the winner lists of two picks in flight are disjoint.
C11_NoUserSelectedByBothPicks ==
    \A t1, t2 \in Tasks :
        (t1 # t2 /\ InFlight(t1) /\ InFlight(t2)) =>
            Range(picks[t1].winners) \cap Range(picks[t2].winners) = {}

\* a pick came to its end: it sent its table, or a role call raised
PickEnded == last.handler = "pick" /\ last.result \in {"ok", "role_error"}

\* w is in PickedState in cache and store, in the cache list and the winner
\* records of the raffle, and has a win counted in cache and store
Recorded(raffle_name, w) ==
    /\ w \in already_picked
    /\ w \in db.picks_state
    /\ raffle_name \in DOMAIN raffles /\ w \in Range(raffles[raffle_name])
    /\ <<raffle_name, w>> \in db.raffle_winners
    /\ w \in DOMAIN user_stats /\ user_stats[w].wins >= 1
    /\ w \in DOMAIN db.stats /\ db.stats[w].wins >= 1

\* C12: a pick that selected winners ends with every one of them recorded, also
\* when create_role or add_roles failed.
C12_PickEndsWithAllWinnersRecorded ==
    PickEnded => \A w \in Range(last.winners) : Recorded(last.raffle_name, w)

\* register reached a store transaction that raised
RegisterStoreFails ==
    \E author \in Users, link \in LinkInputs, k \in 1..3 : register_store_error(author, link, k)

\* unregister passed its checks and its DELETE transaction raised
UnregisterStoreFails ==
    \E author \in Users, member \in Users \cup {NoMember}, administrator \in BOOLEAN :
        LET target == IF member # NoMember THEN member ELSE author
        IN  /\ target \in DOMAIN db.users
            /\ member = NoMember \/ administrator
            /\ ~unregister_delete_ok(db, target)
            /\ unregister(author, member, administrator)

\* C13: a register or unregister request whose store write fails leaves
\* user_links, user_stats, already_picked and always_pick as they were.
C13_StoreFailureLeavesCache ==
    [][(RegisterStoreFails \/ UnregisterStoreFails) =>
          <<user_links, user_stats, already_picked, always_pick>>'
              = <<user_links, user_stats, already_picked, always_pick>>]_vars

WinnersInStore == {rw[2] : rw \in db.raffle_winners}

\* C14: the cache's already_picked holds every user who has a winner record
\* for any raffle in the store.
C14_PickedHoldsEveryWinner == WinnersInStore \subseteq already_picked

\* C15: once the startup rebuild has failed, the process handles no pick.
C15_NoPickAfterFailedStartup == ~(ready = "failed" /\ last.handler = "pick")

\* C16: unregister of another member by a non-administrator is rejected for
\* lack of permission whether or not the target is registered, and changes
\* neither cache nor store.
C16_NonAdminUnregisterSameOutcome ==
    [][\A author \in Users : \A member \in Users \ {author} :
          unregister(author, member, FALSE) =>
              /\ unregister_check(author, member, FALSE) = "no_permission"
              /\ cache' = cache
              /\ db' = db]_vars

\* the cache's registered users
Registered(u) == u \in DOMAIN user_links

\* C17: register by a user who is registered or blacklisted, and unregister for
\* a user who is not registered, change neither cache nor store; no user
\* becomes registered while blacklisted.
C17_RejectedRequestsChangeNothing ==
    [][/\ \A author \in Users, link \in LinkInputs :
             (register(author, link) /\ (Registered(author) \/ is_blacklisted(db, author)))
                 => (cache' = cache /\ db' = db)
       /\ \A author \in Users, member \in Users \cup {NoMember}, administrator \in BOOLEAN :
             LET target == IF member # NoMember THEN member ELSE author
             IN  (unregister(author, member, administrator) /\ ~Registered(target))
                     => (cache' = cache /\ db' = db)
       /\ \A u \in Users :
             (is_blacklisted(db, u) /\ ~Registered(u)) => ~Registered(u)']_vars

\* C18: every stats row references an existing users row, and the winners of
\* a pick have their users row and their counted win, also those who had no
\* users row before.
C18_StatsRowsReferenceUsers ==
    /\ DOMAIN db.stats \subseteq DOMAIN db.users
    /\ PickedOk =>
           \A w \in Range(last.winners) :
               w \in DOMAIN db.users /\ w \in DOMAIN db.stats /\ db.stats[w].wins >= 1

\* a user who never registered won a pick and has a users row with no link
C18_Witness ==
    /\ PickedOk
    /\ \E w \in Range(last.winners) :
           /\ ~Registered(w)
           /\ w \in DOMAIN db.stats /\ db.stats[w].registrations = 0
           /\ w \in DOMAIN db.users /\ db.users[w] = ""

\* C19: an export of a raffle with winners leaves exactly one schedule entry
\* for it, at now + 5 minutes, whether or not it had one; an entry it had is
\* replaced by a time that is not earlier, and the other entries stay.
C19_ScheduleHoldsOneEntryPerRaffle ==
    [][\A n \in RaffleNames :
          (has_winners(n) /\ handle_export(n)) =>
              /\ DOMAIN db'.archive_schedule = (DOMAIN db.archive_schedule) \cup {n}
              /\ db'.archive_schedule[n] = now + ArchiveDelayMinutes
              /\ n \in DOMAIN db.archive_schedule =>
                     db'.archive_schedule[n] >= db.archive_schedule[n]
              /\ \A m \in (DOMAIN db.archive_schedule) \ {n} :
                     db'.archive_schedule[m] = db.archive_schedule[m]]_vars

\* an entry scheduled after the clock advanced, next to an entry that is due
C19_Witness ==
    /\ now > 0
    /\ \E n, m \in DOMAIN db.archive_schedule :
           /\ db.archive_schedule[n] = now + ArchiveDelayMinutes
           /\ db.archive_schedule[m] <= now

\* C20: reset_picks empties the picked set in the cache and in the store, and
\* every user who was picked, is a member of the guild, is not blacklisted and
\* meets the rule of their group (always-pick: none; registered: online) is in
\* the priority winners or in the eligible pool of the next pick.
C20_ResetPicksMakesPickedEligible ==
    [][reset_picks =>
          /\ already_picked' = {}
          /\ db'.picks_state = {}
          /\ \A u \in already_picked : \A members \in SUBSET Users : \A online \in SUBSET Users :
                 ( /\ u \in members
                   /\ ~is_blacklisted(db, u)
                   /\ \/ u \in always_pick
                      \/ u \in DOMAIN user_links /\ u \in online )
                 => u \in (priority_winners(members) \cup eligible(members, online))']_vars

\* a pick after a reset selected a user the raffle already listed as a winner
C20_Witness ==
    /\ PickedOk
    /\ \E i, j \in DOMAIN raffles[last.raffle_name] :
           /\ i < j
           /\ raffles[last.raffle_name][i] = raffles[last.raffle_name][j]
           /\ raffles[last.raffle_name][j] \in Range(last.winners)
    /\ db.picks_state = already_picked

\* C21: reset_raffles keeps the registered users: user_links and the users
\* table are unchanged by it, and so are the always-pick set (cache and store)
\* and the blacklist.
C21_ResetRafflesKeepsUsers ==
    [][reset_raffles =>
          /\ user_links' = user_links
          /\ db'.users = db.users
          /\ always_pick' = always_pick
          /\ db'.always_pick = db.always_pick
          /\ db'.blacklist = db.blacklist]_vars

\* reset_raffles deleted the stats rows of the registered users, one of them
\* always picked and one blacklisted, and left their users rows
C21_Witness ==
    /\ DOMAIN db.users = Users
    /\ DOMAIN user_links = Users
    /\ DOMAIN db.stats = {}
    /\ DOMAIN user_stats = {}
    /\ always_pick # {}
    /\ db.blacklist # {}

\* the entry of raffle n was processed: archived in the store, out of the
\* schedule and out of the cache
Processed(n) ==
    /\ Archived(db, n)
    /\ n \notin DOMAIN db.archive_schedule
    /\ n \notin DOMAIN raffles

\* the entry of raffle n was moved to a later time
Rescheduled(n) == n \in DOMAIN db.archive_schedule /\ db.archive_schedule[n] > now

\* C22: with archive_watcher ticks scheduled fairly, every due schedule entry
\* that is not rescheduled is eventually processed (its raffle archived, the
\* entry removed, the raffle dropped from the cache), also after a tick that
\* failed.
C22_DueEntryEventuallyProcessed ==
    \A n \in RaffleNames : (n \in Due) ~> (Processed(n) \/ Rescheduled(n))

\* C23: an archive_watcher tick that archives raffle R while a pick for R is
\* suspended at an await leaves the pick to complete without error, and every
\* winner in the picked set of the cache is in the picked set of the store: no
\* half-applied winner stays.
C23_PickSurvivesArchiveTick ==
    /\ ~(last.handler = "pick" /\ last.result = "key_error")
    /\ (\A t \in Tasks : ~InFlight(t)) => already_picked \subseteq db.picks_state

CacheWins(u) == IF u \in DOMAIN user_stats THEN user_stats[u].wins ELSE 0
OldList(n) == IF n \in DOMAIN raffles THEN raffles[n] ELSE <<>>

\* C24: a pick that ran from its call to its end with winner set W adds W to
\* the picked set of cache and store, raises the wins counter of each winner
\* by exactly 1 in cache and store, appends the winners to the raffle's cache
\* list, leaves a winner record for each, and leaves the picked membership and
\* the stats of every other user as they were.
C24_PickRecordsExactlyItsWinners ==
    [][PickedOk' =>
          LET W == Range(last'.winners)
              n == last'.raffle_name
          IN  /\ already_picked' = already_picked \cup W
              /\ db'.picks_state = db.picks_state \cup W
              /\ raffles'[n] = OldList(n) \o last'.winners
              /\ \A w \in W :
                     /\ CacheWins(w)' = CacheWins(w) + 1
                     /\ StoreWins(w)' = StoreWins(w) + 1
                     /\ <<n, w>> \in db'.raffle_winners
              /\ \A u \in Users \ W :
                     /\ (u \in DOMAIN user_stats') = (u \in DOMAIN user_stats)
                     /\ u \in DOMAIN user_stats => user_stats'[u] = user_stats[u]
                     /\ (u \in DOMAIN db'.stats) = (u \in DOMAIN db.stats)
                     /\ u \in DOMAIN db.stats => db'.stats[u] = db.stats[u]]_vars

\* a pick selected two winners, one of them for the second time, into a
\* raffle that already listed a winner
C24_Witness ==
    /\ PickedOk
    /\ Len(last.winners) = 2
    /\ Len(raffles[last.raffle_name]) = 3
    /\ \E w \in Range(last.winners) : CacheWins(w) = 2 /\ StoreWins(w) = 2

\* a step of the archive_watcher loop, whether its store calls commit or raise
WatcherTick == archive_watcher \/ archive_watcher_error

\* C25: a raffle becomes archived only in an archive_watcher tick and only if
\* its schedule entry is at or before the time of the tick; a tick neither
\* archives nor drops from the cache a raffle with no entry or with an entry in
\* the future.
C25_ArchivedOnlyWhenDue ==
    [][\A n \in RaffleNames :
          /\ (~Archived(db, n) /\ Archived(db', n)) => (WatcherTick /\ n \in Due)
          /\ (WatcherTick /\ n \notin Due) =>
                 /\ Archived(db', n) = Archived(db, n)
                 /\ (n \in DOMAIN raffles') = (n \in DOMAIN raffles)]_vars

\* a tick archived one raffle and left another, whose entry is in the future,
\* active and in the cache
C25_Witness ==
    /\ last.handler = "archive_watcher"
    /\ last.result = "ok"
    /\ \E n, m \in RaffleNames :
           /\ Archived(db, n)
           /\ m \in DOMAIN db.archive_schedule
           /\ db.archive_schedule[m] > now
           /\ Active(db, m)
           /\ m \in DOMAIN raffles

\* C26: a winner outside the always-pick set is registered and online when
\* the pick selects; an always-pick member in the guild, not picked and not
\* blacklisted is a winner whatever their presence is.
C26_PoolWinnersAreOnline ==
    [][PickedOk' =>
          /\ \A w \in Range(last'.winners) \ always_pick :
                 w \in DOMAIN user_links /\ w \in last'.online
          /\ \A u \in EligibleAlways(last'.members) \ last'.online :
                 u \in Range(last'.winners)]_vars

\* a pick selected an always-pick member who is not online and, asked for more
\* winners than it found, left out a registered member who is not online
C26_Witness ==
    /\ PickedOk
    /\ last.number > Len(last.winners)
    /\ \E w \in Range(last.winners) \cap always_pick : w \notin last.online
    /\ \E u \in (DOMAIN user_links) \ always_pick :
           /\ u \in last.members \ last.online
           /\ u \notin already_picked
           /\ u \notin db.blacklist

\* C27: between operations the picked set of the cache equals the picks_state
\* table of the store, after any sequence of pick, unregister, reset_raffles
\* and reset_db.
C27_PickedCacheEqualsStore == already_picked = db.picks_state

\* C28: between operations the registered-user map of the cache equals the
\* users table of the store: the same user ids, and for each the same link.
C28_UserLinksEqualUsersTable ==
    /\ DOMAIN user_links = DOMAIN db.users
    /\ \A u \in DOMAIN user_links : db.users[u] = user_links[u]

\* the users with a winner record for raffle n in the store
RecordedWinners(n) == {rw[2] : rw \in {x \in db.raffle_winners : x[1] = n}}

\* C29: between operations, for every active raffle the winner list of the
\* cache has no user twice and holds exactly the users with a winner record
\* for that raffle in the store.
C29_CacheListMatchesWinnerRecords ==
    \A n \in RaffleNames :
        Active(db, n) =>
            /\ \A i, j \in 1..Len(OldList(n)) : OldList(n)[i] = OldList(n)[j] => i = j
            /\ Range(OldList(n)) = RecordedWinners(n)

\* user u is in no table of the store and in no map or set of the cache that
\* unregister clears
Unregistered(u) ==
    /\ u \notin DOMAIN db.users
    /\ u \notin DOMAIN db.stats
    /\ u \notin db.always_pick
    /\ u \notin db.picks_state
    /\ \A rw \in db.raffle_winners : rw[2] # u
    /\ u \notin DOMAIN user_links
    /\ u \notin DOMAIN user_stats
    /\ u \notin already_picked
    /\ u \notin always_pick

\* C30: an unregister that passes its checks, for a user with a users row and
\* a stats row, removes the user from users, stats, always_pick, picks_state
\* and raffle_winners in the store and from user_links, user_stats,
\* already_picked and always_pick in the cache.
C30_AuthorizedUnregisterRemovesUser ==
    [][\A author \in Users : \A member \in Users \cup {NoMember} : \A administrator \in BOOLEAN :
          LET target == IF member # NoMember THEN member ELSE author
          IN  ( /\ unregister_check(author, member, administrator) = "ok"
                /\ target \in DOMAIN db.stats
                /\ unregister(author, member, administrator) )
              => Unregistered(target)']_vars

====
